---- MODULE Spec2Model ----
(***************************************************************************)
(* SGS::XMLReader (Source/XMLParser/XMLReader.cpp): a pull-style reader    *)
(* over the expat push tokenizer.  IsEOF() and ReadElement() drive Parse(),*)
(* which reads chunks from an IStream and feeds them to XML_Parse; expat's *)
(* callbacks (XMLAdapter::On...) append XMLElement objects to mElements.   *)
(*                                                                         *)
(* Bytes are one-character strings.  The tokenizer (expat) is external: it *)
(* is modelled on a reduced XML syntax                                     *)
(*     start tag   <  n  (k v)*  >        empty tag  <  n  (k v)*  /  >    *)
(*     end tag     <  /  n  >             text       any byte but  <       *)
(* with n in NameBytes, k in AttrBytes, v in ValBytes.                     *)
(***************************************************************************)
EXTENDS Integers, Sequences, FiniteSets, TLC

VARIABLES
    doc,              \* the bytes behind the IStream (fixed at construction)
    streamReleased,   \* the IStream object has been deleted
    canOpt,           \* mpStream->CanReadOptimized()
    hasStream,        \* mpStream != NULL
    parserOk,         \* mParser != NULL (XML_ParserCreate succeeded)
    pos,              \* number of bytes of doc already read from the stream
    tok,              \* state of the expat parser object
    mElements,        \* std::list<XMLElement*> mElements
    mpCurrentElement, \* XMLElement* mpCurrentElement
    released,         \* log of the element ids passed to delete
    parserFreed,      \* XML_ParserFree has been called
    events,           \* log of the callbacks expat made, in delivery order
    returned,         \* log of the values returned by ReadElement
    feeds,            \* log of the XML_Parse calls
    reads,            \* number of Read/ReadOptimized calls
    failed,           \* some call has thrown xml_error
    last,             \* what the most recent call did
    ncalls,           \* number of calls made on the reader
    status            \* "alive", "crashed", "hung" or "destroyed"

vars == <<doc, streamReleased, canOpt, hasStream, parserOk, pos, tok, mElements,
          mpCurrentElement, released, parserFreed, events, returned, feeds,
          reads, failed, last, ncalls, status>>

(* ---------------------------- bounds ----------------------------------- *)
MaxChunk == 2      \* largest number of bytes one buffered Read returns
MaxCalls == 5      \* number of IsEOF/ReadElement calls explored

(* ---------------------------- inputs ----------------------------------- *)
NameBytes == {"a", "b"}
AttrBytes == {"x", "y"}
ValBytes  == {"1", "2"}

Docs ==
    { <<>>,
      <<"<","a",">","t","u","<","/","a",">">>,
      <<"<","a","x","1",">","<","b","/",">","t","u","<","/","a",">">>,
      <<"<","a",">","<","b","y","2","x","1",">","<","/","b",">","<","/","a",">">>,
      <<"<","a",">","<","/","b",">">>,
      <<"<","a",">","<","b",">","<","/","a",">">>,
      <<"<","a",">","<","/","b",">","<","b",">","t">>,
      <<"<","a",">","t">>,
      <<"t">>,
      <<"<","a","/",">","t","<","b",">">>,
      <<"<","a","x","1","x","2",">">> }

\* the sizes the successive buffered reads of one call return (used
\* cyclically); a read may return no byte although the stream is not at its end
Plans == [1..2 -> 1..MaxChunk] \cup {<<0, 0>>, <<0, 1>>}

NULL    == [id |-> 0,  kind |-> "NULL",    name |-> <<>>, attributes |-> <<>>]
\* what an invalid pointer designates: no XMLElement any callback created
Garbage == [id |-> -1, kind |-> "Garbage", name |-> <<>>, attributes |-> <<>>]

NoError == [type |-> "none", message |-> ""]

Min(a, b) == IF a < b THEN a ELSE b

(* ------------------------- expat (external) ---------------------------- *)
InitTok == [st |-> "content", name |-> <<>>, atts |-> <<>>, key |-> "",
            stack |-> <<>>, rootDone |-> FALSE, finished |-> FALSE,
            err |-> "XML_ERROR_NONE"]

StartEv(n, a) == [type |-> "start", name |-> n, atts |-> a]
EndEv(n)      == [type |-> "end",   name |-> n, atts |-> <<>>]
CharsEv(s)    == [type |-> "chars", name |-> s, atts |-> <<>>]

\* character data collected so far in this chunk is reported as one event
Flush(txt, evs) == IF txt = <<>> THEN evs ELSE Append(evs, CharsEv(txt))

Fail(t, code) == [t EXCEPT !.err = code]

HasKey(atts, k) == \E i \in DOMAIN atts : atts[i][1] = k

\* one byte b in tokenizer state t; r = [tok, txt, evs]
Step(t, b, txt, evs) ==
    CASE t.st = "content" ->
           IF b = "<"
           THEN [tok |-> [t EXCEPT !.st = "lt"], txt |-> <<>>, evs |-> Flush(txt, evs)]
           ELSE IF t.stack = <<>>
           THEN [tok |-> Fail(t, IF t.rootDone THEN "XML_ERROR_JUNK_AFTER_DOC_ELEMENT"
                                               ELSE "XML_ERROR_SYNTAX"),
                 txt |-> txt, evs |-> evs]
           ELSE [tok |-> t, txt |-> Append(txt, b), evs |-> evs]
      [] t.st = "lt" ->
           IF b = "/" /\ t.stack # <<>>
           THEN [tok |-> [t EXCEPT !.st = "etag0"], txt |-> txt, evs |-> evs]
           ELSE IF b \in NameBytes
           THEN IF t.rootDone
                THEN [tok |-> Fail(t, "XML_ERROR_JUNK_AFTER_DOC_ELEMENT"), txt |-> txt, evs |-> evs]
                ELSE [tok |-> [t EXCEPT !.st = "stag", !.name = <<b>>, !.atts = <<>>],
                      txt |-> txt, evs |-> evs]
           ELSE [tok |-> Fail(t, "XML_ERROR_INVALID_TOKEN"), txt |-> txt, evs |-> evs]
      [] t.st = "stag" ->
           IF b = ">"
           THEN [tok |-> [t EXCEPT !.st = "content", !.stack = Append(t.stack, t.name)],
                 txt |-> txt, evs |-> Append(evs, StartEv(t.name, t.atts))]
           ELSE IF b = "/"
           THEN [tok |-> [t EXCEPT !.st = "sslash"], txt |-> txt, evs |-> evs]
           ELSE IF b \in AttrBytes
           THEN IF HasKey(t.atts, b)
                THEN [tok |-> Fail(t, "XML_ERROR_DUPLICATE_ATTRIBUTE"), txt |-> txt, evs |-> evs]
                ELSE [tok |-> [t EXCEPT !.st = "attv", !.key = b], txt |-> txt, evs |-> evs]
           ELSE [tok |-> Fail(t, "XML_ERROR_INVALID_TOKEN"), txt |-> txt, evs |-> evs]
      [] t.st = "attv" ->
           IF b \in ValBytes
           THEN [tok |-> [t EXCEPT !.st = "stag", !.atts = Append(t.atts, <<t.key, b>>)],
                 txt |-> txt, evs |-> evs]
           ELSE [tok |-> Fail(t, "XML_ERROR_INVALID_TOKEN"), txt |-> txt, evs |-> evs]
      [] t.st = "sslash" ->
           IF b = ">"
           THEN [tok |-> [t EXCEPT !.st = "content",
                                   !.rootDone = (t.stack = <<>>)],
                 txt |-> txt,
                 evs |-> Append(Append(evs, StartEv(t.name, t.atts)), EndEv(t.name))]
           ELSE [tok |-> Fail(t, "XML_ERROR_INVALID_TOKEN"), txt |-> txt, evs |-> evs]
      [] t.st = "etag0" ->
           IF b \in NameBytes
           THEN [tok |-> [t EXCEPT !.st = "etag", !.name = <<b>>], txt |-> txt, evs |-> evs]
           ELSE [tok |-> Fail(t, "XML_ERROR_INVALID_TOKEN"), txt |-> txt, evs |-> evs]
      [] OTHER ->  \* "etag"
           IF b = ">"
           THEN IF t.stack[Len(t.stack)] = t.name
                THEN [tok |-> [t EXCEPT !.st = "content",
                                        !.stack = SubSeq(t.stack, 1, Len(t.stack) - 1),
                                        !.rootDone = (Len(t.stack) = 1)],
                      txt |-> txt, evs |-> Append(evs, EndEv(t.name))]
                ELSE [tok |-> Fail(t, "XML_ERROR_TAG_MISMATCH"), txt |-> txt, evs |-> evs]
           ELSE [tok |-> Fail(t, "XML_ERROR_INVALID_TOKEN"), txt |-> txt, evs |-> evs]

\* the bytes chunk[i..] of a chunk; r = [tok, txt, evs] is where the scan
\* stands.  It stops at the first error; at the end of the chunk the
\* character data collected is reported
RECURSIVE Scan(_, _, _)
Scan(r, chunk, i) ==
    IF r.tok.err # "XML_ERROR_NONE" THEN r
    ELSE IF i > Len(chunk) THEN [r EXCEPT !.txt = <<>>, !.evs = Flush(r.txt, r.evs)]
    ELSE Scan(Step(r.tok, chunk[i], r.txt, r.evs), chunk, i + 1)

\* the end of the input: it must not stop inside a token or an element
EndOfInput(t) ==
    IF t.st # "content" THEN Fail(t, "XML_ERROR_UNCLOSED_TOKEN")
    ELSE IF ~t.rootDone THEN Fail(t, "XML_ERROR_NO_ELEMENTS")
    ELSE [t EXCEPT !.finished = TRUE]

\* what XML_Parse reports: the events it delivered, the parser's next state
\* and the status it returns
Report(t, evs) ==
    [tok |-> t, evs |-> evs,
     status |-> IF t.err = "XML_ERROR_NONE" THEN "XML_STATUS_OK" ELSE "XML_STATUS_ERROR"]

Scanned(r, isFinal) ==
    Report(IF r.tok.err # "XML_ERROR_NONE" \/ ~isFinal THEN r.tok ELSE EndOfInput(r.tok),
           r.evs)

\* XML_Parse(parser, data, length, isFinal)
XML_Parse(t, chunk, isFinal) ==
    IF t.err # "XML_ERROR_NONE" THEN Report(t, <<>>)
    ELSE IF t.finished THEN Report(Fail(t, "XML_ERROR_FINISHED"), <<>>)
    ELSE Scanned(Scan([tok |-> t, txt |-> <<>>, evs |-> <<>>], chunk, 1), isFinal)

XML_GetErrorCode(t) == t.err

XML_ErrorString(code) ==
    CASE code = "XML_ERROR_SYNTAX"                 -> "syntax error"
      [] code = "XML_ERROR_NO_ELEMENTS"            -> "no element found"
      [] code = "XML_ERROR_INVALID_TOKEN"          -> "not well-formed (invalid token)"
      [] code = "XML_ERROR_UNCLOSED_TOKEN"         -> "unclosed token"
      [] code = "XML_ERROR_TAG_MISMATCH"           -> "mismatched tag"
      [] code = "XML_ERROR_DUPLICATE_ATTRIBUTE"    -> "duplicate attribute"
      [] code = "XML_ERROR_JUNK_AFTER_DOC_ELEMENT" -> "junk after document element"
      [] code = "XML_ERROR_FINISHED"               -> "parsing finished"
      [] code = "XML_ERROR_INVALID_ARGUMENT"       -> "invalid argument"
      [] OTHER                                     -> ""

(* ------------------------ XMLAdapter callbacks ------------------------- *)
EmptyMap == [k \in {} |-> ""]

\* pElement->attributes[key] = value
MapPut(m, k, v) == [x \in (DOMAIN m) \cup {k} |-> IF x = k THEN v ELSE m[x]]

RECURSIVE SetAttributes(_, _, _)

\* a loop that steps over every other pair
SetAttributesSkip(m, atts, i) ==
    IF i > Len(atts) THEN m
    ELSE SetAttributes(MapPut(m, atts[i][1], atts[i][2]), atts, i + 2)

\* while ( *atts != NULL ) { key = *atts++; value = *atts++; ... }
SetAttributes(m, atts, i) ==
    IF i > Len(atts) THEN m
    ELSE SetAttributes(MapPut(m, atts[i][1], atts[i][2]), atts, i + 1)

OnStartElement(id, name, atts) ==
    [id |-> id, kind |-> "kStart", name |-> name,
     attributes |-> SetAttributes(EmptyMap, atts, 1)]

OnEndElement(id, name) ==
    [id |-> id, kind |-> "kEnd", name |-> name, attributes |-> EmptyMap]

OnCharacterData(id, s) ==
    [id |-> id, kind |-> "kText", name |-> s, attributes |-> EmptyMap]

\* the handler registered for the event (XML_SetElementHandler,
\* XML_SetCharacterDataHandler); the new object is the id-th ever created
Handle(id, ev) ==
    CASE ev.type = "start" -> OnStartElement(id, ev.name, ev.atts)
      [] ev.type = "end"   -> OnEndElement(id, ev.name)
      [] OTHER             -> OnCharacterData(id, ev.name)

\* pThis->mElements.push_back(pElement), once per event XML_Parse delivers
RECURSIVE PushBack(_, _, _, _)
PushBack(q, nEvents, evs, i) ==
    IF i > Len(evs) THEN q
    ELSE PushBack(Append(q, Handle(nEvents + i, evs[i])), nEvents, evs, i + 1)

(* ------------------------------ IStream -------------------------------- *)
StreamIsEOF(d, p) == p = Len(d)

\* Read(buf, n): at most n of the remaining bytes
Read(d, p, n) == SubSeq(d, p + 1, p + Min(n, Len(d) - p))

\* ReadOptimized(data, GetLength()): the whole remaining content
ReadOptimized(d, p) == SubSeq(d, p + 1, Len(d))

(* ------------------------------ XMLReader ------------------------------ *)
\* class xml_error: the constructor ignores its argument (/*what*/), so the
\* exception holds only what std::exception holds
xml_error(what) == [type |-> "xml_error", message |-> "std::exception"]

\* the chunk the next read returns: ReadOptimized(data, GetLength()) if the
\* stream can, else Read(buf, sizeof(buf)).  plan holds the sizes of the
\* buffered reads of this call, k is the index of the read within the call
NextChunk(s, plan, k) ==
    IF s.canOpt THEN ReadOptimized(s.doc, s.pos)
    ELSE Read(s.doc, s.pos, plan[((k - 1) % Len(plan)) + 1])

\* a reader that drops what is queued when the tokenizer reports an error
FedClearOnError(s, chunk, done, r) ==
    [s EXCEPT !.pos = s.pos + Len(chunk), !.tok = r.tok, !.reads = s.reads + 1,
              !.mElements = IF r.status = "XML_STATUS_ERROR" THEN <<>>
                            ELSE PushBack(s.mElements, Len(s.events), r.evs, 1),
              !.events = s.events \o r.evs,
              !.feeds = Append(s.feeds, [final |-> done, status |-> r.status,
                                         pos |-> s.pos + Len(chunk)]),
              !.zero = s.zero \/ chunk = <<>>,
              !.thrown = IF r.status = "XML_STATUS_ERROR"
                         THEN xml_error(XML_ErrorString(XML_GetErrorCode(r.tok)))
                         ELSE NoError]

\* the reader after XML_Parse reported r for the chunk: the callbacks have
\* run, and an XML_STATUS_ERROR is thrown as an xml_error
Fed(s, chunk, done, r) ==
    [s EXCEPT !.pos = s.pos + Len(chunk), !.tok = r.tok, !.reads = s.reads + 1,
              !.mElements = PushBack(s.mElements, Len(s.events), r.evs, 1),
              !.events = s.events \o r.evs,
              !.feeds = Append(s.feeds, [final |-> done, status |-> r.status,
                                         pos |-> s.pos + Len(chunk)]),
              !.zero = s.zero \/ chunk = <<>>,
              !.thrown = IF r.status = "XML_STATUS_ERROR"
                         THEN xml_error(XML_ErrorString(XML_GetErrorCode(r.tok)))
                         ELSE NoError]

\* bool done = mpStream->IsEOF(); XML_Parse(mParser, data, length, done)
Feed(s, chunk, done) == Fed(s, chunk, done, XML_Parse(s.tok, chunk, done))

\* a final flag taken before the read
ReadChunkDoneBefore(s, chunk) == Feed(s, chunk, StreamIsEOF(s.doc, s.pos))

\* one pass of the loop body of Parse()
ReadChunk(s, chunk) == Feed(s, chunk, StreamIsEOF(s.doc, s.pos + Len(chunk)))

ReadAndFeed(s, plan, k) == ReadChunk(s, NextChunk(s, plan, k))

\* a loop condition that does not look at the queue
LoopConditionNoQueue(s) == ~StreamIsEOF(s.doc, s.pos)

\* a loop condition that does not ask the stream
LoopConditionNoEOF(s) == s.mElements = <<>>

\* while (mElements.empty() && !mpStream->IsEOF())
LoopCondition(s) == s.mElements = <<>> /\ ~StreamIsEOF(s.doc, s.pos)

\* the loop can make no progress: its condition holds and every read of the
\* call returns no byte, so each further pass leaves queue and stream as
\* they are
Stalled(s, plan) ==
    /\ LoopCondition(s)
    /\ ~s.canOpt
    /\ \A i \in DOMAIN plan : plan[i] = 0

RECURSIVE Parse(_, _, _)

\* an error that is swallowed: the loop goes on
AfterFeedNoThrow(s2, plan, k) ==
    IF Stalled(s2, plan) THEN [s2 EXCEPT !.thrown = NoError, !.spin = TRUE]
    ELSE Parse([s2 EXCEPT !.thrown = NoError], plan, k + 1)

\* a tokenizer that is reset before the error is thrown
AfterFeedReset(s2, plan, k) ==
    IF s2.thrown # NoError THEN [s2 EXCEPT !.tok = InitTok]
    ELSE IF Stalled(s2, plan) THEN [s2 EXCEPT !.spin = TRUE]
    ELSE Parse(s2, plan, k + 1)

\* the end of the loop body: the throw leaves Parse(), else the loop goes
\* on; a stalled loop goes on for ever (spin)
AfterFeed(s2, plan, k) ==
    IF s2.thrown # NoError THEN s2
    ELSE IF Stalled(s2, plan) THEN [s2 EXCEPT !.spin = TRUE]
    ELSE Parse(s2, plan, k + 1)

\* an if in place of the while: one read per call
ParseOnce(s, plan, k) ==
    IF ~LoopCondition(s) THEN s
    ELSE ReadAndFeed(s, plan, k)

\* Parse()
Parse(s, plan, k) ==
    IF ~LoopCondition(s) THEN s
    ELSE AfterFeed(ReadAndFeed(s, plan, k), plan, k)

\* the state Parse() starts from
Cur == [doc |-> doc, canOpt |-> canOpt, pos |-> pos, tok |-> tok,
        mElements |-> mElements, events |-> events, feeds |-> feeds,
        reads |-> reads, thrown |-> NoError, zero |-> FALSE, spin |-> FALSE]

\* returning the stream's status in place of the queue's
IsEOFResultStream(s) == StreamIsEOF(s.doc, s.pos)

\* return mElements.empty();
IsEOFResult(s) == s.mElements = <<>>

\* a pop_front() that is missing
PopFrontKeep(q) == q

\* mElements.pop_front()
PopFront(q) == Tail(q)

\* delete p, for p NULL or an XMLElement a callback created
Delete(log, p) == IF p = NULL THEN log ELSE Append(log, p.id)

\* what a call did: the feeds and reads it made, whether an element was
\* available to it, whether an earlier call had already thrown
Called(op, outcome, s, result, element, error) ==
    [op |-> op, outcome |-> outcome, result |-> result, element |-> element,
     error |-> error, afterFailure |-> failed,
     callFeeds |-> SubSeq(s.feeds, Len(feeds) + 1, Len(s.feeds)),
     callReads |-> s.reads - reads,
     callEvents |-> Len(s.events) - Len(events),
     callBytes |-> s.pos - pos,
     zeroRead |-> s.zero,
     eof |-> StreamIsEOF(s.doc, s.pos),
     available |-> s.mElements # <<>>,
     diagnostic |-> XML_ErrorString(XML_GetErrorCode(s.tok))]

\* outcomes of undefined behaviour: the process dies, or it goes on with
\* whatever the invalid access yields
UBOutcomes == {"crash", "garbage"}

Init ==
    /\ doc \in Docs
    /\ streamReleased = FALSE
    /\ canOpt \in BOOLEAN
    /\ hasStream \in BOOLEAN
    /\ parserOk \in BOOLEAN
    /\ pos = 0
    \* a parser that was not created accepts nothing
    /\ tok = IF parserOk THEN InitTok ELSE Fail(InitTok, "XML_ERROR_INVALID_ARGUMENT")
    /\ mElements = <<>>
    /\ mpCurrentElement = NULL
    /\ released = <<>>
    /\ parserFreed = FALSE
    /\ events = <<>>
    /\ returned = <<>>
    /\ feeds = <<>>
    /\ reads = 0
    /\ failed = FALSE
    /\ last = [op |-> "none", outcome |-> "none", result |-> FALSE, element |-> NULL,
               error |-> NoError, afterFailure |-> FALSE, callFeeds |-> <<>>,
               callReads |-> 0, callEvents |-> 0, callBytes |-> 0,
               zeroRead |-> FALSE, eof |-> FALSE, available |-> FALSE,
               diagnostic |-> ""]
    /\ ncalls = 0
    /\ status = "alive"

\* the part of a call's effect that Parse() made
Parsed(s) ==
    /\ pos' = s.pos
    /\ tok' = s.tok
    /\ events' = s.events
    /\ feeds' = s.feeds
    /\ reads' = s.reads

\* the call never returns: Parse() spins in its loop
Hang(op, s) ==
    /\ status' = "hung"
    /\ last' = Called(op, "hang", s, FALSE, NULL, NoError)
    /\ UNCHANGED <<mElements, mpCurrentElement, released, returned, failed>>

\* IsEOF() once Parse() has ended in s
IsEOFAfterParse(s) ==
    /\ Parsed(s)
    /\ IF s.spin THEN Hang("IsEOF", s)
       ELSE /\ mElements' = s.mElements
            /\ status' = status
            /\ UNCHANGED <<mpCurrentElement, released, returned>>
            /\ IF s.thrown # NoError
               THEN /\ failed' = TRUE
                    /\ last' = Called("IsEOF", "throw", s, FALSE, NULL, s.thrown)
               ELSE /\ failed' = failed
                    /\ last' = Called("IsEOF", "return", s, IsEOFResult(s), NULL, NoError)

\* a test that forgets the stream
CannotParseNoStreamTest == ~parserOk

\* if (!mParser || !mpStream)
CannotParse == ~parserOk \/ ~hasStream

IsEOF ==
    /\ status = "alive"
    /\ ncalls < MaxCalls
    /\ ncalls' = ncalls + 1
    /\ UNCHANGED <<doc, streamReleased, canOpt, hasStream, parserOk, parserFreed>>
    /\ IF CannotParse
       THEN /\ last' = Called("IsEOF", "return", Cur, TRUE, NULL, NoError)
            /\ UNCHANGED <<pos, tok, mElements, events, feeds, reads, failed,
                           mpCurrentElement, released, returned, status>>
       ELSE \E plan \in Plans : IsEOFAfterParse(Parse(Cur, plan, 1))

\* the process dies in a call that got as far as s
Crash(s) ==
    /\ status' = "crashed"
    /\ last' = Called("ReadElement", "crash", s, FALSE, NULL, NoError)
    /\ UNCHANGED <<mElements, mpCurrentElement, released, returned, failed>>

\* mpCurrentElement = mElements.front(); mElements.pop_front(); return
\* *mpCurrentElement; -- on an empty list both calls are undefined
FrontAndPop(s, ub) ==
    IF s.mElements # <<>>
    THEN /\ mpCurrentElement' = Head(s.mElements)
         /\ mElements' = PopFront(s.mElements)
         /\ returned' = Append(returned, Head(s.mElements))
         /\ status' = status
         /\ last' = Called("ReadElement", "return", s, FALSE, Head(s.mElements), NoError)
    ELSE IF ub = "crash"
    THEN /\ status' = "crashed"
         /\ last' = Called("ReadElement", "crash", s, FALSE, NULL, NoError)
         /\ UNCHANGED <<mElements, mpCurrentElement, returned>>
    ELSE /\ mpCurrentElement' = Garbage
         /\ mElements' = s.mElements
         /\ returned' = Append(returned, Garbage)
         /\ status' = status
         /\ last' = Called("ReadElement", "return", s, FALSE, Garbage, NoError)

\* ReadElement() once Parse() has ended in s
ReadElementAfterParse(s, ub) ==
    /\ Parsed(s)
    /\ IF s.spin THEN Hang("ReadElement", s)
       ELSE IF s.thrown # NoError
       THEN \* XML_Parse on a null parser either dies or reports an error
            IF ~parserOk /\ ub = "crash"
            THEN Crash(s)
            ELSE /\ failed' = TRUE
                 /\ mElements' = s.mElements
                 /\ last' = Called("ReadElement", "throw", s, FALSE, NULL, s.thrown)
                 /\ UNCHANGED <<mpCurrentElement, released, returned, status>>
       ELSE IF mpCurrentElement = Garbage
       THEN \* delete of an invalid pointer: undefined
            IF ub = "crash"
            THEN Crash(s)
            ELSE /\ released' = released
                 /\ failed' = failed
                 /\ FrontAndPop(s, ub)
       ELSE /\ released' = Delete(released, mpCurrentElement)
            /\ failed' = failed
            /\ FrontAndPop(s, ub)

ReadElement ==
    /\ status = "alive"
    /\ ncalls < MaxCalls
    /\ ncalls' = ncalls + 1
    /\ UNCHANGED <<doc, streamReleased, canOpt, hasStream, parserOk, parserFreed>>
    /\ \E plan \in Plans, ub \in UBOutcomes :
         IF ~hasStream
         THEN \* mpStream->IsEOF() through a null pointer
              /\ Crash(Cur)
              /\ UNCHANGED <<pos, tok, events, feeds, reads>>
         ELSE ReadElementAfterParse(Parse(Cur, plan, 1), ub)

\* a destructor that forgets the queue
DeleteAllNone(log, q, i) == log

\* for (iter = mElements.begin(); iter != mElements.end(); ++iter) delete *iter;
RECURSIVE DeleteAll(_, _, _)
DeleteAll(log, q, i) ==
    IF i > Len(q) THEN log ELSE DeleteAll(Delete(log, q[i]), q, i + 1)

\* ~XMLReader()
Destructor ==
    /\ status = "alive"
    /\ parserFreed' = parserOk
    /\ UNCHANGED <<doc, streamReleased, canOpt, hasStream, parserOk, pos, tok, events, returned,
                   feeds, reads, failed, last, ncalls>>
    /\ \E ub \in UBOutcomes :
         IF mpCurrentElement = Garbage /\ ub = "crash"
         THEN /\ status' = "crashed"
              /\ UNCHANGED <<mElements, mpCurrentElement, released>>
         ELSE /\ status' = "destroyed"
              /\ released' = DeleteAll(IF mpCurrentElement = Garbage THEN released
                                       ELSE Delete(released, mpCurrentElement),
                                       mElements, 1)
              /\ mElements' = <<>>
              /\ mpCurrentElement' = NULL

Next == IsEOF \/ ReadElement \/ Destructor

Spec == Init /\ [][Next]_vars

(* ------------------------------ properties ----------------------------- *)
\* the reader the contract is about: tokenizer created, byte source given
Usable == parserOk /\ hasStream

\* the most recent call was hasMore() (IsEOF negated) and returned normally
HasMoreReturned == last.op = "IsEOF" /\ last.outcome = "return"
HasMore == ~last.result

IsElement(e) == e.kind \in {"kStart", "kEnd", "kText"}

\* the most recent call was nextElement() and it had nothing to deliver:
\* the queue was empty after a parse step that raised no error
Exhausted ==
    last.op = "ReadElement" /\ last.outcome # "throw" /\ ~last.available

\* C1: a hasMore() call that returns normally returns false iff the byte
\* source is at end-of-stream and the queue is empty, and true iff at least
\* one Element is queued when it returns.
C1_HasMoreFalseIffConsumed ==
    (Usable /\ status = "alive" /\ HasMoreReturned) =>
        /\ (~HasMore <=> (StreamIsEOF(doc, pos) /\ mElements = <<>>))
        /\ (HasMore <=> mElements # <<>>)

C1_Witness ==
    /\ Usable /\ status = "alive" /\ HasMoreReturned /\ ~HasMore
    /\ StreamIsEOF(doc, pos) /\ Len(returned) >= 2
    /\ \A i \in DOMAIN returned : IsElement(returned[i])

\* C2: the Elements returned by successive nextElement() calls are always a
\* prefix of the tokenizer's events in delivery order, one Element per
\* event, for any interleaving of hasMore() and nextElement() calls.
C2_ReturnedIsPrefixOfEvents ==
    Usable =>
        /\ Len(returned) <= Len(events)
        /\ \A i \in DOMAIN returned : returned[i] = Handle(i, events[i])

\* C3: nextElement() called when no element is available fails explicitly
\* with ExhaustedQueue: it returns nothing, leaves the empty queue alone and
\* does not release the previously delivered Element.
C3_ExhaustedQueueRaised ==
    (Usable /\ Exhausted) =>
        /\ last.outcome = "throw"
        /\ last.error.type = "ExhaustedQueue"

\* C4: when the tokenizer reports a fatal error for a chunk, the call that
\* fed the chunk fails with MalformedInput (xml_error), whether or not the
\* feed enqueued Elements, and that feed is the call's last: nothing more is
\* read or fed.
C4_ParseErrorThrows ==
    Usable =>
        \A i \in DOMAIN last.callFeeds :
            last.callFeeds[i].status = "XML_STATUS_ERROR" =>
                /\ last.outcome = "throw"
                /\ last.error.type = "xml_error"
                /\ i = Len(last.callFeeds)
                /\ last.callReads = i

C4_Witness ==
    /\ Usable /\ last.outcome = "throw" /\ ~last.afterFailure
    /\ last.callEvents > 0 /\ Len(last.callFeeds) > 1
    /\ ~StreamIsEOF(doc, pos)

\* C5 (as stated): after a call has failed with MalformedInput no later
\* nextElement() returns an Element and no later hasMore() returns true.
C5_NothingAfterFailure ==
    (Usable /\ last.afterFailure /\ last.outcome = "return") =>
        /\ ~(last.op = "ReadElement" /\ IsElement(last.element))
        /\ ~(last.op = "IsEOF" /\ HasMore)

\* C5 (amended): after a call has failed with MalformedInput the tokenizer
\* delivers no further event, so no Element is appended to the queue; the
\* Elements emitted during the failing feed before the error stay queued:
\* while any remain, nextElement() returns the head and hasMore() returns
\* true.
C5_NoNewEventsAfterFailure ==
    [][(Usable /\ failed /\ ncalls' = ncalls + 1) =>
          /\ events' = events
          /\ mElements # <<>> =>
               /\ last'.outcome = "return"
               /\ last'.op = "IsEOF" => (~last'.result /\ mElements' = mElements)
               /\ last'.op = "ReadElement" =>
                     (last'.element = Head(mElements) /\ mElements' = Tail(mElements))]_vars

C5_Witness ==
    /\ Usable /\ last.afterFailure /\ last.op = "ReadElement"
    /\ last.outcome = "return" /\ IsElement(last.element)
    /\ last.callFeeds = <<>>

\* what an Element holds, apart from its identity
Content(e) == [kind |-> e.kind, name |-> e.name, attributes |-> e.attributes]

RECURSIVE TagsOf(_)
TagsOf(es) ==
    IF es = <<>> THEN <<>>
    ELSE IF Head(es).kind \in {"kStart", "kEnd"}
         THEN <<Content(Head(es))>> \o TagsOf(Tail(es))
         ELSE TagsOf(Tail(es))

SingleChunk(d) == XML_Parse(InitTok, d, TRUE)
WellFormed(d) == SingleChunk(d).status = "XML_STATUS_OK"
Drained ==
    /\ Usable /\ status = "alive" /\ HasMoreReturned /\ ~HasMore
    /\ \A i \in DOMAIN returned : IsElement(returned[i])

\* C6: for a well-formed stream, however it is split into read chunks, a
\* reader drained with hasMore()/nextElement() has returned the StartTag
\* and EndTag Elements that feeding the stream as one single chunk gives
\* (same kinds, names, attributes and order); Text may be split differently.
C6_TagsIndependentOfChunking ==
    (WellFormed(doc) /\ Drained) =>
        TagsOf(returned) = TagsOf(PushBack(<<>>, 0, SingleChunk(doc).evs, 1))

C6_Witness ==
    /\ WellFormed(doc) /\ Drained /\ Len(feeds) > 2
    /\ Len(TagsOf(returned)) >= 2
    /\ Len(returned) > Len(SingleChunk(doc).evs)

\* C7: on an empty byte stream the first hasMore() returns false at once:
\* no read is issued, the tokenizer is fed nothing, no error is raised and
\* no Element is ever produced.
C7_EmptyStream ==
    (Usable /\ doc = <<>>) =>
        /\ reads = 0 /\ feeds = <<>> /\ events = <<>> /\ ~failed
        /\ last.op = "IsEOF" => (last.outcome = "return" /\ ~HasMore)

C7_Witness ==
    Usable /\ doc = <<>> /\ ncalls = 1 /\ HasMoreReturned /\ ~HasMore

\* C8 (as stated): once a parse step has failed with MalformedInput, every
\* later hasMore() or nextElement() call fails with MalformedInput too.
C8_EveryLaterCallFails ==
    (Usable /\ last.afterFailure /\ ~Exhausted) =>
        (last.outcome = "throw" /\ last.error.type = "xml_error")

\* C8 (amended): the tokenizer is never reset: once a parse step has failed,
\* the tokenizer stays in error, and every later call whose parse step feeds
\* it fails with MalformedInput again without producing an Element; a later
\* call that feeds nothing (Elements still queued, or the source at
\* end-of-stream) does not fail with MalformedInput, and hasMore() returns
\* false once the queue is empty and the source is at end-of-stream.
C8_LaterFeedsFail ==
    /\ (Usable /\ failed) => XML_GetErrorCode(tok) # "XML_ERROR_NONE"
    /\ (Usable /\ last.afterFailure) =>
          IF last.callFeeds # <<>>
          THEN /\ last.outcome = "throw" /\ last.error.type = "xml_error"
               /\ last.callEvents = 0
          ELSE /\ last.outcome # "throw"
               /\ (last.op = "IsEOF" /\ status = "alive") =>
                     (last.result <=> (mElements = <<>> /\ StreamIsEOF(doc, pos)))

C8_Witness ==
    /\ Usable /\ last.afterFailure /\ last.callFeeds # <<>>
    /\ last.outcome = "throw" /\ last.op = "IsEOF"

\* C9: the MalformedInput error a failing parse step raises holds the
\* diagnostic string the tokenizer reports for its error code.
C9_ErrorCarriesDiagnostic ==
    (Usable /\ last.outcome = "throw") =>
        last.error.message = last.diagnostic

\* C10: every successful nextElement() removes exactly the head of the
\* queue, moves it into the most-recently-delivered slot and releases the
\* Element the previous call returned; so at most one delivered Element is
\* valid: every Element returned earlier is released and is neither queued
\* nor in the slot.
C10_OneDeliveredElementValid ==
    [][(Usable /\ last'.op = "ReadElement" /\ ncalls' = ncalls + 1
          /\ last'.outcome = "return" /\ last'.available) =>
          /\ Len(mElements') = Len(mElements) + last'.callEvents - 1
          /\ last'.element = Handle(Len(events') - Len(mElements'),
                                    events'[Len(events') - Len(mElements')])
          /\ mpCurrentElement' = last'.element
          /\ \A i \in DOMAIN mElements' : mElements'[i].id > last'.element.id
          /\ IsElement(mpCurrentElement) =>
                released' = Append(released, mpCurrentElement.id)
          /\ \A i \in DOMAIN returned :
                IsElement(returned[i]) =>
                   /\ \E j \in DOMAIN released' : released'[j] = returned[i].id
                   /\ returned[i] # mpCurrentElement'
                   /\ \A j \in DOMAIN mElements' : mElements'[j] # returned[i]]_vars

C10_Witness ==
    /\ Usable /\ status = "alive" /\ last.op = "ReadElement" /\ last.outcome = "return"
    /\ Len(returned) >= 2 /\ IsElement(returned[Len(returned) - 1])
    /\ IsElement(mpCurrentElement) /\ mElements # <<>>
    /\ released = <<returned[Len(returned) - 1].id>>

\* C11: hasMore() is a pure look-ahead: it removes no Element from the
\* queue and neither changes nor releases the most recently delivered
\* Element; when the queue is already non-empty it runs no parse step (no
\* read, no feed), leaves the queue as it is and returns true; a hasMore()
\* that follows a hasMore() returns what that one returned.
C11_HasMoreIsLookAhead ==
    [][(Usable /\ ncalls' = ncalls + 1 /\ last'.op = "IsEOF") =>
          /\ mpCurrentElement' = mpCurrentElement
          /\ released' = released
          /\ returned' = returned
          /\ Len(mElements') >= Len(mElements)
          /\ SubSeq(mElements', 1, Len(mElements)) = mElements
          /\ mElements # <<>> =>
                /\ reads' = reads /\ feeds' = feeds /\ pos' = pos /\ tok' = tok
                /\ mElements' = mElements
                /\ last'.outcome = "return" /\ ~last'.result
          /\ HasMoreReturned =>
                (last'.outcome = "return" /\ last'.result = last.result)]_vars

C11_Witness ==
    /\ Usable /\ status = "alive" /\ ncalls >= 3
    /\ HasMoreReturned /\ HasMore /\ last.callReads = 0
    /\ ~StreamIsEOF(doc, pos) /\ IsElement(mpCurrentElement)

\* C12: each feed carries a final flag equal to the stream's end-of-stream
\* status right after the read that produced the chunk; so (the stream's
\* end-of-stream status never reverts) at most one feed of a reader is
\* final and no chunk is fed after it.
C12_FinalFlagIsEOFAfterRead ==
    Usable =>
        /\ \A i \in DOMAIN feeds : feeds[i].final <=> StreamIsEOF(doc, feeds[i].pos)
        /\ Cardinality({i \in DOMAIN feeds : feeds[i].final}) <= 1
        /\ \A i \in DOMAIN feeds : feeds[i].final => i = Len(feeds)

C12_Witness ==
    /\ Usable /\ status = "alive" /\ Len(feeds) >= 3
    /\ feeds[Len(feeds)].final /\ feeds[Len(feeds)].status = "XML_STATUS_OK"
    /\ ncalls >= 4 /\ last.callFeeds = <<>>

\* how often Element id is in the pending queue, in the delivered slot, in
\* the log of deletes
InQueue(id)  == Cardinality({j \in DOMAIN mElements : mElements[j].id = id})
InSlot(id)   == IF mpCurrentElement.id = id THEN 1 ELSE 0
Releases(id) == Cardinality({j \in DOMAIN released : released[j] = id})

\* C13: every Element a callback created is in exactly one of the pending
\* queue, the most-recently-delivered slot, released; none is released
\* twice; once the reader is destroyed, after any calls (failed ones
\* included), every Element has been released exactly once and the
\* tokenizer is destroyed, and the borrowed byte source is never released.
C13_ExclusiveOwnership ==
    (status # "crashed") =>
        /\ \A id \in 1..Len(events) :
              /\ InQueue(id) + InSlot(id) + Releases(id) = 1
              /\ status = "destroyed" => Releases(id) = 1
        /\ \A j \in DOMAIN released : released[j] \in 1..Len(events)
        /\ parserFreed <=> (status = "destroyed" /\ parserOk)
        /\ ~streamReleased

C13_Witness ==
    /\ Usable /\ status = "destroyed" /\ failed
    /\ Len(returned) >= 1 /\ Len(events) >= Len(returned) + 1
    /\ \A i \in DOMAIN returned : IsElement(returned[i])
    /\ Len(released) = Len(events)

\* C14 (as stated): without a tokenizer or without a byte source, hasMore()
\* raises no error, runs no parse step and returns true on every call.
C14_DegenerateHasMoreTrue ==
    (~Usable /\ last.op = "IsEOF") =>
        /\ last.outcome = "return" /\ last.callReads = 0 /\ last.callFeeds = <<>>
        /\ HasMore

\* C14 (amended): without a tokenizer or without a byte source, hasMore()
\* raises no error, runs no parse step (no read, no feed) and returns false
\* on every call: IsEOF() returns true, "always EOF".
C14_DegenerateHasMoreFalse ==
    (~Usable /\ last.op = "IsEOF") =>
        /\ last.outcome = "return" /\ last.error = NoError
        /\ last.callReads = 0 /\ last.callFeeds = <<>> /\ last.callBytes = 0
        /\ ~HasMore

C14_Witness ==
    /\ ~parserOk /\ hasStream /\ doc # <<>> /\ ncalls >= 2
    /\ HasMoreReturned /\ ~HasMore /\ reads = 0

\* C15: a nextElement() that fails with MalformedInput delivers nothing and
\* releases nothing: the most recently delivered Element is the same valid
\* object, no Element has left the queue; all that changed is the bytes
\* consumed and the Elements the callbacks appended before the error.
C15_FailedNextElementFrame ==
    [][(Usable /\ ncalls' = ncalls + 1 /\ last'.op = "ReadElement"
          /\ last'.outcome = "throw") =>
          /\ mpCurrentElement' = mpCurrentElement
          /\ released' = released
          /\ returned' = returned
          /\ status' = status /\ parserFreed' = parserFreed
          /\ pos' >= pos
          /\ Len(mElements') = Len(mElements) + (Len(events') - Len(events))
          /\ SubSeq(mElements', 1, Len(mElements)) = mElements
          /\ \A j \in (Len(mElements) + 1)..Len(mElements') :
                mElements'[j].id = Len(events) + (j - Len(mElements))]_vars

C15_Witness ==
    /\ Usable /\ last.op = "ReadElement" /\ last.outcome = "throw"
    /\ IsElement(mpCurrentElement) /\ Releases(mpCurrentElement.id) = 0
    /\ last.callEvents > 0 /\ mElements # <<>>

\* C16: a parse step all of whose reads consume at least one byte (the
\* stream being finite) terminates, after at most as many reads as it
\* consumed bytes, and ends in exactly one way: MalformedInput raised, or
\* else the queue non-empty, or else the stream at end-of-stream with the
\* queue empty.  (It spins only on reads that return no byte.)
C16_ParseStepEnds ==
    (Usable /\ last.op # "none" /\ ~last.zeroRead) =>
        /\ last.outcome # "hang"
        /\ last.callReads <= last.callBytes
        /\ Cardinality({o \in {"raised", "queued", "eof"} :
              \/ o = "raised" /\ last.outcome = "throw"
              \/ o = "queued" /\ last.outcome # "throw" /\ last.available
              \/ o = "eof"    /\ last.outcome # "throw" /\ ~last.available /\ last.eof}) = 1

C16_Witness ==
    /\ Usable /\ ~last.zeroRead /\ last.callReads >= 3 /\ last.callBytes > last.callReads
    /\ last.outcome = "return" /\ last.available /\ ~last.eof

\* every Element that is queued or was ever delivered
Held ==
    {mElements[j] : j \in DOMAIN mElements}
        \cup {returned[j] : j \in {k \in DOMAIN returned : IsElement(returned[k])}}

\* the attribute map holds exactly the name/value pairs delivered
HoldsPairs(map, atts) ==
    /\ DOMAIN map = {atts[i][1] : i \in DOMAIN atts}
    /\ Cardinality(DOMAIN map) = Len(atts)
    /\ \A i \in DOMAIN atts : map[atts[i][1]] = atts[i][2]

\* C17 (as stated): every Element has one kind of StartTag, EndTag, Text
\* and only the fields of its kind are populated: an EndTag has a tag name
\* and no attributes, a Text has no tag name (its name field is not
\* populated) and no attributes, a StartTag has its name and one entry per
\* attribute delivered.
C17_OnlyFieldsOfKind ==
    \A e \in Held :
        /\ e.kind \in {"kStart", "kEnd", "kText"}
        /\ e.kind = "kStart" => (e.name = events[e.id].name
                                   /\ HoldsPairs(e.attributes, events[e.id].atts))
        /\ e.kind = "kEnd" => (e.name = events[e.id].name /\ DOMAIN e.attributes = {})
        /\ e.kind = "kText" => (e.name = <<>> /\ DOMAIN e.attributes = {})

\* C17 (amended): every Element has one kind of StartTag, EndTag, Text, the
\* kind of the event it was made for; an EndTag has its tag name and no
\* attributes; a Text has no attributes and holds its character content in
\* the name field (there is no separate text field); only a StartTag has
\* attributes, one entry per attribute name with the value delivered.
C17_FieldsByKind ==
    \A e \in Held :
        /\ e.kind \in {"kStart", "kEnd", "kText"}
        /\ e.kind = "kStart" <=> events[e.id].type = "start"
        /\ e.kind = "kEnd" <=> events[e.id].type = "end"
        /\ e.kind = "kText" <=> events[e.id].type = "chars"
        /\ e.name = events[e.id].name
        /\ e.kind = "kStart" => HoldsPairs(e.attributes, events[e.id].atts)
        /\ e.kind # "kStart" => DOMAIN e.attributes = {}
        /\ e.kind = "kText" => e.name # <<>>

C17_Witness ==
    /\ Usable /\ IsElement(mpCurrentElement) /\ mpCurrentElement.kind = "kText"
    /\ \E e \in Held : e.kind = "kStart" /\ DOMAIN e.attributes # {}
    /\ \E e \in Held : e.kind = "kEnd"
====
